---- MODULE Spec2Model ----
(***************************************************************************)
(* Active-learning review queue of car-img-tagger.                         *)
(*                                                                         *)
(*   src/src/car_img_tagger/active_learning.py   select_for_review         *)
(*   src/src/car_img_tagger/auto_tagging.py      CarImageTagger            *)
(*   src/src/car_img_tagger/config.py            MODEL_CONFIG              *)
(*   src/scripts/build_review_queue.py           main                      *)
(*                                                                         *)
(* Python dicts are functions whose DOMAIN is the set of keys present, so  *)
(* a missing key and a key holding a value are different things.  Floats   *)
(* are integers in hundredths (1.1 nats is 110, a margin of 0.25 is 25):   *)
(* the code only compares them, and comparison is preserved by scaling.    *)
(* A returned sample is the very dict object of the input batch: it is     *)
(* modelled by its position in the batch.                                  *)
(***************************************************************************)
EXTENDS Integers, Sequences, FiniteSets, TLC

VARIABLES
    predictions,          \* the batch handed to select_for_review
    entropy_threshold,    \* argument of the latest call
    max_items,            \* argument of the latest call
    result,               \* list returned by the latest call (positions in the batch)
    called,               \* has select_for_review returned at least once
    repeated,             \* the latest call had the arguments of the call before it
    previous,             \* what the call before it returned, when repeated
    active_learning_cfg,  \* CarImageTagger.active_learning_cfg
    metrics,              \* argument of the latest _needs_review call
    review_required,      \* what the latest _needs_review call returned
    reviewed,             \* has _needs_review returned at least once
    probabilities,        \* the distribution handed to the uncertainty estimator
    entropy_out,          \* outcome of the latest probability_entropy call
    margin_out,           \* outcome of the latest margin_confidence call
    scores,               \* UncertaintyScores of the latest compute_uncertainty call
    args,                 \* command line of build_review_queue.py, once parsed
    payload,              \* the review-queue JSON written by build_review_queue.py
    images,               \* the image of each worker, or the images of the brand folder
    pc,                   \* where each worker is in process_single_image
    category_uncertainties, \* CarImageTagger.category_uncertainties
    results,              \* what process_single_image returned, per worker or per image
    max_images,           \* argument of process_brand_images
    image_files,          \* the files process_brand_images loops over (positions in images)
    outcomes,             \* per file handled so far: "ok" or "raised"
    brand_pc,             \* where process_brand_images is
    df                    \* the dataset build_review_queue.py reads

vars == <<predictions, entropy_threshold, max_items, result, called, repeated,
          previous, active_learning_cfg, metrics, review_required, reviewed,
          probabilities, entropy_out, margin_out, scores, args, payload,
          images, pc, category_uncertainties, results,
          max_images, image_files, outcomes, brand_pc, df>>

selectorVars == <<predictions, entropy_threshold, max_items, result, called,
                  repeated, previous>>

taggerVars == <<active_learning_cfg, metrics, review_required, reviewed>>

estimatorVars == <<probabilities, entropy_out, margin_out, scores>>

builderVars == <<args, payload, df>>

workerVars == <<images, pc, category_uncertainties, results>>

brandVars == <<max_images, image_files, outcomes, brand_pc>>

----------------------------------------------------------------------------
(* Bounds *)

MaxBatch == 3
MaxNegativeItems == 1
MaxItems == 3
MaxCandidates == 3
NumWorkers == 2
MaxImages == 2
MaxRows == 2

----------------------------------------------------------------------------
(* Program constants, in hundredths *)

DefaultEntropyThreshold == 110
DefaultMarginThreshold == 25
DefaultEntropy == 0
DefaultMargin == 100

----------------------------------------------------------------------------
(* Python dict and list primitives *)

EmptyDict == [key \in {} |-> 0]

\* d.get(key, default)
Get(d, key, default) == IF key \in DOMAIN d THEN d[key] ELSE default

Range(seq) == {seq[i] : i \in 1..Len(seq)}

Min(a, b) == IF a <= b THEN a ELSE b

Max(a, b) == IF a >= b THEN a ELSE b

\* the last k items kept instead of the first k
SliceLast(seq, k) ==
    LET stop == IF k >= 0 THEN Min(k, Len(seq)) ELSE Max(Len(seq) + k, 0)
    IN SubSeq(seq, Len(seq) - stop + 1, Len(seq))

\* seq[:k]: a negative k counts from the end of the list
SliceTo(seq, k) ==
    LET stop == IF k >= 0 THEN Min(k, Len(seq)) ELSE Max(Len(seq) + k, 0)
    IN SubSeq(seq, 1, stop)

----------------------------------------------------------------------------
(* Inputs *)

\* uncertainty sub-records of tagged images, in hundredths: entropy below, on
\* and above the configured threshold, margins on both sides of the margin
\* threshold, and a record that lacks the entropy key
UncertaintyRecords ==
    {[entropy |-> 0, margin |-> 100, max_confidence |-> 100],
     [entropy |-> 69, margin |-> 0, max_confidence |-> 50],
     [entropy |-> 110, margin |-> 1, max_confidence |-> 34],
     [entropy |-> 156, margin |-> 10, max_confidence |-> 30],
     [margin |-> 100, max_confidence |-> 100]}

ThresholdValues == {-10, 0, 110}

Samples ==
    {[image_id |-> "img"]}
    \cup {[image_id |-> "img", uncertainty |-> u] : u \in UncertaintyRecords}

Batches == UNION {[1..n -> Samples] : n \in 0..MaxBatch}

----------------------------------------------------------------------------
(* active_learning.select_for_review *)

\* lines 41-42: the entropy the sample is gated and ranked by
SampleEntropy(sample) ==
    LET uncertainty == Get(sample, "uncertainty", EmptyDict)
    IN Get(uncertainty, "entropy", DefaultEntropy)

\* the gate with a strict comparison
AdmitsStrict(sample, threshold) == SampleEntropy(sample) > threshold

\* the gate also letting in samples of low top-1 probability
AdmitsOrLowConfidence(sample, threshold) ==
    \/ SampleEntropy(sample) >= threshold
    \/ Get(Get(sample, "uncertainty", EmptyDict), "max_confidence", 0) <= 50

\* the gate OR-combined with the margin gate of the tagger
AdmitsEitherGate(sample, threshold) ==
    \/ SampleEntropy(sample) >= threshold
    \/ Get(Get(sample, "uncertainty", EmptyDict), "margin", DefaultMargin)
            <= DefaultMarginThreshold

\* line 43
Admits(sample, threshold) == SampleEntropy(sample) >= threshold

\* lines 39-44: the (entropy, sample) pairs appended by the loop, in input order
RECURSIVE BuildQueue(_, _, _)
BuildQueue(batch, threshold, i) ==
    IF i > Len(batch) THEN <<>>
    ELSE LET rest == BuildQueue(batch, threshold, i + 1)
         IN IF Admits(batch[i], threshold)
            THEN <<<<SampleEntropy(batch[i]), i>>>> \o rest
            ELSE rest

\* the order of a sort without reverse=True
BeforeAscending(a, b) == a[1] < b[1]

\* the order of a descending sort that puts later equal items first
BeforeUnstable(a, b) == a[1] >= b[1]

\* does item a go before item b in a list sorted with reverse=True
Before(a, b) == a[1] > b[1]

\* place one item into a sorted list, behind every item it does not go before
RECURSIVE InsertSorted(_, _)
InsertSorted(sorted, item) ==
    IF sorted = <<>> THEN <<item>>
    ELSE IF Before(item, Head(sorted))
         THEN <<item>> \o sorted
         ELSE <<Head(sorted)>> \o InsertSorted(Tail(sorted), item)

\* line 45: list.sort(key=item[0], reverse=True), a stable sort
RECURSIVE SortQueue(_)
SortQueue(queue) ==
    IF queue = <<>> THEN <<>>
    ELSE InsertSorted(SortQueue(SubSeq(queue, 1, Len(queue) - 1)), queue[Len(queue)])

\* the sample at the head of the queue returned at every position
ProjectRepeatingHead(queue) == [j \in 1..Len(queue) |-> queue[1][2]]

\* line 46
Project(queue) == [j \in 1..Len(queue) |-> queue[j][2]]

\* the cap applied to the queue in input order, before the sort
select_for_review_cap_first(batch, threshold, cap) ==
    Project(SortQueue(SliceTo(BuildQueue(batch, threshold, 1), cap)))

\* the queue of the call before kept and appended to
select_for_review_stale(batch, threshold, cap) ==
    LET kept == [j \in 1..Len(result) |->
                    <<SampleEntropy(batch[result[j]]), result[j]>>]
    IN Project(SliceTo(SortQueue(kept \o BuildQueue(batch, threshold, 1)), cap))

select_for_review(batch, threshold, cap) ==
    Project(SliceTo(SortQueue(BuildQueue(batch, threshold, 1)), cap))

\* the call sorting the caller's list in place, by entropy, highest first
SelectSortingInput ==
    /\ \E threshold \in ThresholdValues, cap \in (0 - MaxNegativeItems)..MaxItems :
        /\ entropy_threshold' = threshold
        /\ max_items' = cap
        /\ result' = select_for_review(predictions, threshold, cap)
        /\ repeated' = (called /\ threshold = entropy_threshold /\ cap = max_items)
        /\ previous' = IF repeated' THEN result ELSE <<>>
    /\ called' = TRUE
    /\ predictions' =
            LET everything == [i \in 1..Len(predictions) |->
                                <<SampleEntropy(predictions[i]), i>>]
                order == Project(SortQueue(everything))
            IN [j \in 1..Len(predictions) |-> predictions[order[j]]]
    /\ UNCHANGED <<taggerVars, estimatorVars, builderVars, workerVars, brandVars>>

\* one call of select_for_review on the batch, as build_review_queue.main makes it
Select ==
    /\ \E threshold \in ThresholdValues, cap \in (0 - MaxNegativeItems)..MaxItems :
        /\ entropy_threshold' = threshold
        /\ max_items' = cap
        /\ result' = select_for_review(predictions, threshold, cap)
        /\ repeated' = (called /\ threshold = entropy_threshold /\ cap = max_items)
        /\ previous' = IF repeated' THEN result ELSE <<>>
    /\ called' = TRUE
    /\ UNCHANGED predictions
    /\ UNCHANGED <<taggerVars, estimatorVars, builderVars, workerVars, brandVars>>

----------------------------------------------------------------------------
(* auto_tagging.CarImageTagger *)

\* config.py MODEL_CONFIG["active_learning"]
ConfiguredActiveLearning ==
    [entropy_threshold |-> DefaultEntropyThreshold,
     margin_threshold |-> DefaultMarginThreshold]

ActiveLearningConfigs ==
    {EmptyDict, ConfiguredActiveLearning}
    \cup {[entropy_threshold |-> 90], [margin_threshold |-> 10],
          [entropy_threshold |-> 90, margin_threshold |-> 10]}

MetricEntropyValues == {0, 89, 90, 109, 110, 150}
MetricMarginValues == {0, 10, 11, 25, 26, 100}

MetricsRecords ==
    {EmptyDict}
    \cup {[entropy |-> e] : e \in MetricEntropyValues}
    \cup {[margin |-> m] : m \in MetricMarginValues}
    \cup {[entropy |-> e, margin |-> m] :
            e \in MetricEntropyValues, m \in MetricMarginValues}

\* both criteria required instead of either
needs_review_both(cfg, m) ==
    /\ Get(m, "entropy", DefaultEntropy)
            >= Get(cfg, "entropy_threshold", DefaultEntropyThreshold)
    /\ Get(m, "margin", DefaultMargin)
            <= Get(cfg, "margin_threshold", DefaultMarginThreshold)

\* the margin criterion alone
needs_review_margin_only(cfg, m) ==
    Get(m, "margin", DefaultMargin)
        <= Get(cfg, "margin_threshold", DefaultMarginThreshold)

\* lines 260-265 of auto_tagging.py
needs_review(cfg, m) ==
    LET threshold == Get(cfg, "entropy_threshold", DefaultEntropyThreshold)
        margin_threshold == Get(cfg, "margin_threshold", DefaultMarginThreshold)
        entropy == Get(m, "entropy", DefaultEntropy)
        margin == Get(m, "margin", DefaultMargin)
    IN entropy >= threshold \/ margin <= margin_threshold

\* one call of self._needs_review(metrics)
NeedsReview ==
    /\ \E m \in MetricsRecords :
        /\ metrics' = m
        /\ review_required' = needs_review(active_learning_cfg, m)
    /\ reviewed' = TRUE
    /\ UNCHANGED active_learning_cfg
    /\ UNCHANGED <<selectorVars, estimatorVars, builderVars, workerVars, brandVars>>

----------------------------------------------------------------------------
(* active_learning: probability_entropy, margin_confidence, compute_uncertainty *)

(* A probability is an integer number of 1e-8 (1.0 is 100000000, the clip     *)
(* floor 1e-8 is 1); a logarithm and an entropy are in millionths of a nat.   *)
(* A float outcome is a record: kind "finite" with its value, or "nan",       *)
(* "neg_inf", "pos_inf"; kind "raised" stands for an exception, "none" for a  *)
(* function not called yet.                                                   *)

ClipFloor == 1
ClipCeiling == 100000000

Finite(v) == [kind |-> "finite", value |-> v]
NaN == [kind |-> "nan", value |-> 0]
NegInf == [kind |-> "neg_inf", value |-> 0]
PosInf == [kind |-> "pos_inf", value |-> 0]
Raised == [kind |-> "raised", value |-> 0]
NotCalled == [kind |-> "none", value |-> 0]

\* entries a caller may pass: -0.1, 0, 0.05, 0.33, 0.34, 0.5, 0.9, 1.0, 1.5
ProbabilityValues ==
    {-10000000, 0, 5000000, 33000000, 34000000, 50000000, 90000000,
     100000000, 150000000}

Distributions == UNION {[1..n -> ProbabilityValues] : n \in 0..MaxCandidates}

\* natural logarithm of a positive x, rounded to millionths
LnMicro(x) ==
    CASE x = 1 -> -18420681
      [] x = 5000000 -> -2995732
      [] x = 33000000 -> -1108663
      [] x = 34000000 -> -1078810
      [] x = 50000000 -> -693147
      [] x = 90000000 -> -105361
      [] x = 100000000 -> 0
      [] x = 150000000 -> 405465

\* np.log: nan below zero, -inf at zero
NpLog(x) ==
    IF x < 0 THEN NaN
    ELSE IF x = 0 THEN NegInf
    ELSE Finite(LnMicro(x))

\* x * y for a finite x and a float outcome y
Times(x, y) ==
    CASE y.kind = "finite" -> Finite(((x \div 1000000) * y.value) \div 100)
      [] y.kind = "nan" -> NaN
      [] y.kind = "neg_inf" ->
            IF x = 0 THEN NaN ELSE IF x > 0 THEN NegInf ELSE PosInf
      [] y.kind = "pos_inf" ->
            IF x = 0 THEN NaN ELSE IF x > 0 THEN PosInf ELSE NegInf

Plus(a, b) ==
    CASE a.kind = "nan" \/ b.kind = "nan" -> NaN
      [] a.kind = "finite" /\ b.kind = "finite" -> Finite(a.value + b.value)
      [] a.kind = "finite" -> b
      [] b.kind = "finite" -> a
      [] a.kind = b.kind -> a
      [] OTHER -> NaN

Negated(a) ==
    CASE a.kind = "finite" -> Finite(0 - a.value)
      [] a.kind = "neg_inf" -> PosInf
      [] a.kind = "pos_inf" -> NegInf
      [] OTHER -> a

\* np.sum: 0.0 for an empty array
RECURSIVE NpSum(_)
NpSum(terms) ==
    IF terms = <<>> THEN Finite(0)
    ELSE Plus(NpSum(SubSeq(terms, 1, Len(terms) - 1)), terms[Len(terms)])

\* np.clip with the upper bound only
NpClipCeilingOnly(x, lo, hi) == Min(x, hi)

\* np.clip(x, lo, hi) of one entry
NpClip(x, lo, hi) == Min(Max(x, lo), hi)

\* lines 17-19
probability_entropy(probs) ==
    LET clipped == [i \in 1..Len(probs) |-> NpClip(probs[i], ClipFloor, ClipCeiling)]
        terms == [i \in 1..Len(probs) |-> Times(clipped[i], NpLog(clipped[i]))]
    IN Negated(NpSum(terms))

\* the largest entry and initial: ndarray.max(initial=...)
RECURSIVE MaxInitial(_, _)
MaxInitial(values, initial) ==
    IF values = <<>> THEN initial
    ELSE Max(values[Len(values)],
             MaxInitial(SubSeq(values, 1, Len(values) - 1), initial))

RECURSIVE InsertDescending(_, _)
InsertDescending(sorted, x) ==
    IF sorted = <<>> THEN <<x>>
    ELSE IF x > Head(sorted)
         THEN <<x>> \o sorted
         ELSE <<Head(sorted)>> \o InsertDescending(Tail(sorted), x)

\* np.sort(values)[::-1]
RECURSIVE SortedDescending(_)
SortedDescending(values) ==
    IF values = <<>> THEN <<>>
    ELSE InsertDescending(SortedDescending(Tail(values)), Head(values))

\* the gap taken between the largest and the smallest entry
margin_confidence_spread(probs) ==
    LET sorted_probs == SortedDescending(probs)
    IN IF Len(sorted_probs) < 2
       THEN Finite(MaxInitial(sorted_probs, 0))
       ELSE Finite(sorted_probs[1] - sorted_probs[Len(sorted_probs)])

\* a single candidate treated as having a runner-up of equal probability
margin_confidence_no_special_case(probs) ==
    LET sorted_probs == SortedDescending(probs)
    IN IF Len(sorted_probs) < 2
       THEN Finite(0)
       ELSE Finite(sorted_probs[1] - sorted_probs[2])

\* lines 22-26
margin_confidence(probs) ==
    LET sorted_probs == SortedDescending(probs)
    IN IF Len(sorted_probs) < 2
       THEN Finite(MaxInitial(sorted_probs, 0))
       ELSE Finite(sorted_probs[1] - sorted_probs[2])

\* the first entry taken for the largest
compute_uncertainty_first_entry(probabilities_in) ==
    [entropy |-> probability_entropy(probabilities_in),
     margin |-> margin_confidence(probabilities_in),
     max_confidence |-> Finite(IF probabilities_in = <<>> THEN 0
                               ELSE probabilities_in[1])]

\* the three signals taken from the clipped entries
compute_uncertainty_clipped(probabilities_in) ==
    LET probs == [i \in 1..Len(probabilities_in) |->
                    NpClip(probabilities_in[i], ClipFloor, ClipCeiling)]
    IN [entropy |-> probability_entropy(probs),
        margin |-> margin_confidence(probs),
        max_confidence |-> Finite(MaxInitial(probs, 0))]

\* lines 29-35
compute_uncertainty(probabilities_in) ==
    LET probs == probabilities_in
    IN [entropy |-> probability_entropy(probs),
        margin |-> margin_confidence(probs),
        max_confidence |-> Finite(MaxInitial(probs, 0))]

\* one call of probability_entropy on the distribution
ProbabilityEntropy ==
    /\ entropy_out' = probability_entropy(probabilities)
    /\ UNCHANGED <<probabilities, margin_out, scores>>
    /\ UNCHANGED <<selectorVars, taggerVars, builderVars, workerVars, brandVars>>

\* one call of margin_confidence on the distribution
MarginConfidence ==
    /\ margin_out' = margin_confidence(probabilities)
    /\ UNCHANGED <<probabilities, entropy_out, scores>>
    /\ UNCHANGED <<selectorVars, taggerVars, builderVars, workerVars, brandVars>>

\* one call of compute_uncertainty on the distribution
ComputeUncertainty ==
    /\ scores' = compute_uncertainty(probabilities)
    /\ UNCHANGED <<probabilities, entropy_out, margin_out>>
    /\ UNCHANGED <<selectorVars, taggerVars, builderVars, workerVars, brandVars>>

----------------------------------------------------------------------------
(* scripts/build_review_queue.py *)

\* --entropy-threshold: absent (None) or the value given
ThresholdOverrides == {<<>>} \cup {<<t>> : t \in ThresholdValues}

\* an override of 0 taken for no override
ResolveThresholdFalsy(override, cfg) ==
    IF override = <<>> \/ override[1] = 0
    THEN Get(cfg, "entropy_threshold", DefaultEntropyThreshold)
    ELSE override[1]

\* lines 126-129
ResolveThreshold(override, cfg) ==
    IF override = <<>>
    THEN Get(cfg, "entropy_threshold", DefaultEntropyThreshold)
    ELSE override[1]

----------------------------------------------------------------------------
(* auto_tagging.CarImageTagger.process_single_image, one tagger, several workers *)

Workers == 1..NumWorkers

\* keys of car_prompts, in the order classify_with_model walks them
Categories == <<"angles", "brands", "styles", "colors", "interior_parts">>

\* the probabilities the classifier gives the prompts of a category, in
\* hundredths: a confident image, one split between two prompts, one with a
\* weak favourite and a tie
ImageScores == {<<100, 0, 0, 0>>, <<60, 40, 0, 0>>, <<40, 20, 20, 20>>, <<25, 25, 25, 25>>}

\* what compute_uncertainty yields for those probabilities, in hundredths
ClassifierUncertainty(image_scores) ==
    CASE image_scores = <<100, 0, 0, 0>> ->
            [entropy |-> 0, margin |-> 100, max_confidence |-> 100]
      [] image_scores = <<60, 40, 0, 0>> ->
            [entropy |-> 67, margin |-> 20, max_confidence |-> 60]
      [] image_scores = <<40, 20, 20, 20>> ->
            [entropy |-> 133, margin |-> 20, max_confidence |-> 40]
      [] image_scores = <<25, 25, 25, 25>> ->
            [entropy |-> 139, margin |-> 0, max_confidence |-> 25]

ImageUncertainties == {ClassifierUncertainty(s) : s \in ImageScores}

\* the files of a folder: readable images, and a file Image.open fails on
Images ==
    {[openable |-> TRUE, scores |-> s, uncertainty |-> ClassifierUncertainty(s)] :
        s \in ImageScores}
    \cup {[openable |-> FALSE, scores |-> <<>>, uncertainty |-> EmptyDict]}

\* lines 71-79: open the image; on failure return {} at once, otherwise start
\* with empty predictions and an empty self.category_uncertainties
ClassifyOpen(w) ==
    /\ pc[w].at = "start"
    /\ IF images[w].openable
       THEN /\ category_uncertainties' = EmptyDict
            /\ pc' = [pc EXCEPT ![w] = [at |-> "category", next |-> 1]]
       ELSE /\ UNCHANGED category_uncertainties
            /\ pc' = [pc EXCEPT ![w] = [at |-> "classified", next |-> 0]]
    /\ UNCHANGED <<images, results>>
    /\ UNCHANGED <<selectorVars, taggerVars, estimatorVars, builderVars, brandVars>>

\* lines 81-98: one round of the loop over the categories
ClassifyCategory(w) ==
    /\ pc[w].at = "category"
    /\ LET category == Categories[pc[w].next]
       IN category_uncertainties' =
            [c \in DOMAIN category_uncertainties \cup {category} |->
                IF c = category THEN images[w].uncertainty
                ELSE category_uncertainties[c]]
    /\ pc' = [pc EXCEPT ![w] =
                IF pc[w].next = Len(Categories)
                THEN [at |-> "classified", next |-> 0]
                ELSE [at |-> "category", next |-> pc[w].next + 1]]
    /\ UNCHANGED <<images, results>>
    /\ UNCHANGED <<selectorVars, taggerVars, estimatorVars, builderVars, brandVars>>

\* lines 211-258: the review flag and the copy of self.category_uncertainties
Finish(w) ==
    /\ pc[w].at = "classified"
    /\ LET angle_unc == Get(category_uncertainties, "angles", EmptyDict)
       IN /\ metrics' = angle_unc
          /\ review_required' = needs_review(active_learning_cfg, angle_unc)
          /\ reviewed' = TRUE
          /\ results' = [results EXCEPT ![w] =
                [needs_annotation |-> needs_review(active_learning_cfg, angle_unc),
                 uncertainty |-> category_uncertainties]]
    /\ pc' = [pc EXCEPT ![w] = [at |-> "done", next |-> 0]]
    /\ UNCHANGED <<images, category_uncertainties, active_learning_cfg>>
    /\ UNCHANGED <<selectorVars, estimatorVars, builderVars, brandVars>>

----------------------------------------------------------------------------
(* Python values as pandas and json hand them over: a record tagged with its  *)
(* type.  A str is told by what the parsers make of it: is it blank, what     *)
(* json.loads returns or raises, what ast.literal_eval returns or raises.     *)

PyDict(d) == [kind |-> "dict", value |-> d]
PyList(items) == [kind |-> "list", value |-> items]
PyFloat(v) == [kind |-> "float", value |-> v]
PyNone == [kind |-> "none"]
PyError == [kind |-> "error"]
PyStr(is_blank, loads, literal_eval) ==
    [kind |-> "str", blank |-> is_blank, json |-> loads, literal |-> literal_eval]

\* json.dumps(value): text that json.loads reads back as the value
JsonDumps(value) == PyStr(FALSE, value, value)

----------------------------------------------------------------------------
(* auto_tagging.CarImageTagger, one image after another *)

\* lines 33-65: the first four prompts of each category
car_prompts ==
    [angles |-> <<"front view of a car", "rear view of a car",
                  "side view of a car", "45 degree front angle of a car">>,
     brands |-> <<"Cadillac car", "Ferrari car", "Honda car", "MINI car">>,
     styles |-> <<"electric car", "hybrid car", "sports car", "luxury car">>,
     colors |-> <<"black car", "white car", "silver car", "gray car">>,
     interior_parts |-> <<"close up of a car gear shifter", "car gear knob detail",
                          "luxury car gear lever",
                          "close up of car steering wheel controls">>]

\* line 98: f"{category}_full"
FullKey(category) ==
    CASE category = "angles" -> "angles_full"
      [] category = "brands" -> "brands_full"
      [] category = "styles" -> "styles_full"
      [] category = "colors" -> "colors_full"
      [] category = "interior_parts" -> "interior_parts_full"

CategoryIndex(category) == CHOOSE k \in 1..Len(Categories) : Categories[k] = category

\* line 82: the probabilities of a category's prompts; the image's scores are
\* rotated from one category to the next so that the best prompt differs
predict_probabilities(image, category) ==
    LET n == Len(image.scores)
    IN [i \in 1..n |-> image.scores[((i + CategoryIndex(category) - 2) % n) + 1]]

Reverse(seq) == [i \in 1..Len(seq) |-> seq[Len(seq) + 1 - i]]

\* line 87: np.argsort(values)[::-1], equal values in descending index order
ArgsortDescending(values) ==
    Project(SortQueue(Reverse([i \in 1..Len(values) |-> <<values[i], i>>])))

\* line 89: sorted(items, key=score, reverse=True) of an ordered dict, which is
\* a list of (label, score) items in insertion order
SortedByScore(items) ==
    LET order == Project(SortQueue([j \in 1..Len(items) |-> <<items[j].score, j>>]))
    IN [j \in 1..Len(items) |-> items[order[j]]]

\* the first item of the largest score: max(items, key=score)
RECURSIVE FirstMax(_)
FirstMax(items) ==
    IF Len(items) = 1 THEN items[1]
    ELSE LET later == FirstMax(Tail(items))
         IN IF items[1].score >= later.score THEN items[1] ELSE later

\* lines 84-89 and 98: the top three prompts and the scores of all prompts
CategoryPredictions(image, category) ==
    LET prompts == car_prompts[category]
        probabilities_np == predict_probabilities(image, category)
        item(idx) == [label |-> prompts[idx], score |-> probabilities_np[idx]]
        top_k == Min(3, Len(prompts))
        top_indices == SubSeq(ArgsortDescending(probabilities_np), 1, top_k)
        top_results == [j \in 1..top_k |-> item(top_indices[j])]
    IN [top |-> SortedByScore(top_results),
        full |-> [idx \in 1..Len(prompts) |-> item(idx)]]

\* lines 78-100: the predictions dict built for each readable image
ImagePredictions ==
    [image \in {i \in Images : i.openable} |->
        [key \in Range(Categories) \cup {FullKey(c) : c \in Range(Categories)} |->
            IF key \in Range(Categories)
            THEN PyDict(CategoryPredictions(image, key).top)
            ELSE PyDict(CategoryPredictions(image,
                    CHOOSE c \in Range(Categories) : FullKey(c) = key).full)]]

\* lines 71-100: the returned predictions and self.category_uncertainties as
\* the call leaves it; a file that cannot be opened returns {} at line 76,
\* before the reset of line 79
classify_with_model(image, uncertainties) ==
    IF ~image.openable
    THEN [predictions |-> EmptyDict, category_uncertainties |-> uncertainties]
    ELSE [predictions |-> ImagePredictions[image],
          category_uncertainties |->
            [c \in Range(Categories) |-> image.uncertainty]]

\* lines 102-204, extract_angle_from_clip and its three siblings: the
\* confidence of the resolved label (its mapping to a tag is not modelled)
extract_from_clip(clip_results, category) ==
    IF category \notin DOMAIN clip_results THEN 0
    ELSE LET category_scores == Get(clip_results, FullKey(category), PyDict(<<>>)).value
         IN IF category_scores = <<>> THEN 0 ELSE FirstMax(category_scores).score

\* lines 206-258: the result, and self.category_uncertainties after the call
process_single_image(image, image_path, uncertainties, cfg) ==
    LET classified == classify_with_model(image, uncertainties)
        clip_results == classified.predictions
        angle_unc == Get(classified.category_uncertainties, "angles", EmptyDict)
        review_required_now == needs_review(cfg, angle_unc)
    IN [result |->
            [image_path |-> image_path,
             angle_confidence |-> extract_from_clip(clip_results, "angles"),
             brand_confidence |-> extract_from_clip(clip_results, "brands"),
             style_confidence |-> extract_from_clip(clip_results, "styles"),
             interior_confidence |-> extract_from_clip(clip_results, "interior_parts"),
             needs_annotation |-> review_required_now,
             clip_results |-> PyDict(clip_results),
             uncertainty |-> classified.category_uncertainties],
        category_uncertainties |-> classified.category_uncertainties]

\* lines 274-275
Truncate(files, limit) ==
    IF limit # 0 /\ Len(files) > limit THEN SliceTo(files, limit) ELSE files

\* lines 268-278: list the folder, truncate, start with no results
ProcessBrandImages ==
    /\ brand_pc.at = "start"
    /\ image_files' = Truncate([i \in 1..Len(images) |-> i], max_images)
    /\ results' = <<>>
    /\ brand_pc' = [at |-> "loop", next |-> 1]
    /\ UNCHANGED <<max_images, outcomes, images, pc, category_uncertainties>>
    /\ UNCHANGED <<selectorVars, taggerVars, estimatorVars, builderVars>>

\* an exception of process_single_image leaving process_brand_images
OnExceptionPropagate(at) == [at |-> "raised", next |-> at.next]

\* lines 283-284: the exception is printed and the loop goes on
OnException(at) == [at |-> "loop", next |-> at.next + 1]

\* where predict_probabilities (line 82) raises while a readable image is
\* classified: nowhere (0), or on the k-th category
FailPoints == 0..Len(Categories)

\* lines 279-284: one round of the loop.  When predict_probabilities raises on
\* a category, the categories before it were stored already
ProcessNextImage ==
    /\ brand_pc.at = "loop"
    /\ brand_pc.next <= Len(image_files)
    /\ LET image_path == image_files[brand_pc.next]
           image == images[image_path]
       IN \E fail_at \in (IF image.openable THEN FailPoints ELSE {0}) :
            IF fail_at = 0
            THEN LET done == process_single_image(image, image_path,
                                category_uncertainties, active_learning_cfg)
                 IN /\ results' = Append(results, done.result)
                    /\ category_uncertainties' = done.category_uncertainties
                    /\ metrics' = Get(done.category_uncertainties, "angles", EmptyDict)
                    /\ review_required' = done.result.needs_annotation
                    /\ reviewed' = TRUE
                    /\ outcomes' = Append(outcomes, "ok")
                    /\ brand_pc' = [at |-> "loop", next |-> brand_pc.next + 1]
            ELSE /\ category_uncertainties' =
                        [c \in {Categories[k] : k \in 1..(fail_at - 1)} |->
                            image.uncertainty]
                 /\ outcomes' = Append(outcomes, "raised")
                 /\ brand_pc' = OnException(brand_pc)
                 /\ UNCHANGED <<results, metrics, review_required, reviewed>>
    /\ UNCHANGED <<max_images, image_files, images, pc, active_learning_cfg>>
    /\ UNCHANGED <<selectorVars, estimatorVars, builderVars>>

\* line 286
ReturnResults ==
    /\ brand_pc.at = "loop"
    /\ brand_pc.next > Len(image_files)
    /\ brand_pc' = [at |-> "returned", next |-> brand_pc.next]
    /\ UNCHANGED <<max_images, image_files, outcomes>>
    /\ UNCHANGED <<selectorVars, taggerVars, estimatorVars, builderVars, workerVars>>

----------------------------------------------------------------------------
(* auto_tagging.process_all_brands and scripts/build_review_queue.py *)

\* lines 301-313 of auto_tagging.py: the dataset written for the results of the
\* folder, dicts stored as JSON text; no result gives a file without columns
SaveDataset ==
    /\ brand_pc.at = "returned"
    /\ df = EmptyDict
    /\ df' = [columns |-> results # <<>>,
              rows |-> [j \in 1..Len(results) |->
                            [image_id |-> "img",
                             uncertainty |-> JsonDumps(PyDict(results[j].uncertainty)),
                             clip_results |-> JsonDumps(results[j].clip_results)]]]
    /\ UNCHANGED <<args, payload>>
    /\ UNCHANGED <<selectorVars, taggerVars, estimatorVars, workerVars, brandVars>>

\* lines 23-37, _coerce_mapping: json.loads raises TypeError on a value that is
\* not text and ast.literal_eval raises ValueError on it
coerce_mapping(value) ==
    IF value.kind = "dict" THEN value
    ELSE IF value.kind = "none" THEN PyDict(EmptyDict)
    ELSE IF value.kind = "str" /\ value.blank THEN PyDict(EmptyDict)
    ELSE IF value.kind = "str" /\ value.json.kind # "error" THEN value.json
    ELSE IF value.kind = "str" /\ value.literal.kind = "dict" THEN value.literal
    ELSE PyDict(EmptyDict)

\* d.get(key, default) or default: a value of 0 is falsy
GetOrDefault(d, key, default) ==
    LET value == Get(d, key, default)
    IN IF value = 0 THEN default ELSE value

\* lines 60-83: the sample built from one row
build_sample(row) ==
    LET uncertainty_all == coerce_mapping(row.uncertainty)
        angle_unc == IF uncertainty_all.kind = "dict"
                     THEN Get(uncertainty_all.value, "angles", EmptyDict)
                     ELSE EmptyDict
    IN [image_id |-> row.image_id,
        clip_results |-> coerce_mapping(row.clip_results),
        uncertainty |->
            [entropy |-> GetOrDefault(angle_unc, "entropy", DefaultEntropy),
             margin |-> GetOrDefault(angle_unc, "margin", DefaultMargin),
             max_confidence |-> GetOrDefault(angle_unc, "max_confidence", 0)],
        uncertainty_all |-> uncertainty_all]

\* lines 57-84
build_samples(rows) == [i \in 1..Len(rows) |-> build_sample(rows[i])]

\* the label of the smallest score reported as the best
top_label_lowest(clip_results, category) ==
    LET category_payload == Get(clip_results.value, category, PyDict(<<>>))
    IN IF category_payload.kind # "dict" \/ category_payload.value = <<>>
       THEN EmptyDict
       ELSE LET item == category_payload.value[Len(category_payload.value)]
            IN [label |-> item.label, score |-> item.score]

\* lines 90-95, _top_label, for clip_results that is a dict
top_label(clip_results, category) ==
    LET category_payload == Get(clip_results.value, category, PyDict(<<>>))
    IN IF category_payload.kind # "dict" \/ category_payload.value = <<>>
       THEN EmptyDict
       ELSE LET item == FirstMax(category_payload.value)
            IN [label |-> item.label, score |-> item.score]

\* line 91: clip_results.get raises AttributeError unless clip_results is a dict
SummaryRaises(sample) == Get(sample, "clip_results", PyDict(EmptyDict)).kind # "dict"

\* lines 87-111, the fields the modelled samples carry
summarise_sample(sample) ==
    LET clip_results == Get(sample, "clip_results", PyDict(EmptyDict))
    IN [image_id |-> Get(sample, "image_id", "None"),
        uncertainty |-> Get(sample, "uncertainty", EmptyDict),
        best_angle |-> top_label(clip_results, "angles"),
        best_brand |-> top_label(clip_results, "brands"),
        best_style |-> top_label(clip_results, "styles"),
        best_interior |-> top_label(clip_results, "interior_parts")]

\* lines 114-150: one run of the script.  pd.read_csv raises EmptyDataError on
\* a file without columns; an exception of summarise_sample ends the run
\* before the payload is written.  samples, threshold and review_candidates
\* are the script's locals, each bound once to the value of its expression
Main ==
    /\ ~called
    /\ payload = EmptyDict
    /\ df # EmptyDict
    /\ \E override \in ThresholdOverrides, cap \in (0 - MaxNegativeItems)..MaxItems :
        /\ args' = [entropy_threshold |-> override, max_items |-> cap]
        /\ IF ~df.columns
           THEN /\ payload' = [error |-> "EmptyDataError"]
                /\ UNCHANGED <<predictions, entropy_threshold, max_items, result, called>>
           ELSE \E samples \in {build_samples(df.rows)},
                   threshold \in {ResolveThreshold(override, active_learning_cfg)} :
                \E review_candidates \in {select_for_review(samples, threshold, cap)} :
                LET summary_payload == [j \in 1..Len(review_candidates) |->
                                            summarise_sample(samples[review_candidates[j]])]
                IN /\ predictions' = samples
                   /\ entropy_threshold' = threshold
                   /\ max_items' = cap
                   /\ result' = review_candidates
                   /\ called' = TRUE
                   /\ payload' =
                        IF \E j \in 1..Len(review_candidates) :
                                SummaryRaises(samples[review_candidates[j]])
                        THEN [error |-> "AttributeError"]
                        ELSE [metadata |-> [count |-> Len(summary_payload),
                                            entropy_threshold |-> threshold],
                              samples |-> summary_payload]
    /\ UNCHANGED <<repeated, previous, df>>
    /\ UNCHANGED <<taggerVars, estimatorVars, workerVars, brandVars>>

\* cells of the uncertainty column: the tagger's JSON text for a record of the
\* angles category
UncertaintyText(angle_unc) == JsonDumps(PyDict([angles |-> angle_unc]))

\* the clip_results text the tagger writes for a readable image
ClipResultsText(image_scores) ==
    JsonDumps(PyDict(classify_with_model(
        [openable |-> TRUE, scores |-> image_scores,
         uncertainty |-> ClassifierUncertainty(image_scores)], EmptyDict).predictions))

\* rows of a dataset: three as the tagger writes them for readable images, one
\* as it writes it for an unreadable first image, one with blank cells (NaN),
\* one whose uncertainty is a Python literal and whose clip_results is a JSON
\* list, and one with unparseable uncertainty and clip_results whose angles
\* entry is a number and whose brands entry is empty
Rows ==
    {[image_id |-> "img",
      uncertainty |-> UncertaintyText(ClassifierUncertainty(s)),
      clip_results |-> ClipResultsText(s)] :
        s \in {<<100, 0, 0, 0>>, <<60, 40, 0, 0>>, <<25, 25, 25, 25>>}}
    \cup {[image_id |-> "img",
           uncertainty |-> JsonDumps(PyDict(EmptyDict)),
           clip_results |-> JsonDumps(PyDict(EmptyDict))],
          [image_id |-> "img",
           uncertainty |-> PyFloat("nan"),
           clip_results |-> PyFloat("nan")],
          [image_id |-> "img",
           uncertainty |-> PyStr(FALSE, PyError,
                PyDict([angles |-> ClassifierUncertainty(<<40, 20, 20, 20>>)])),
           clip_results |-> JsonDumps(PyList(<<1, 2>>))],
          [image_id |-> "img",
           uncertainty |-> PyStr(FALSE, PyError, PyError),
           clip_results |-> JsonDumps(PyDict(
                [angles |-> PyFloat("nan"), brands |-> PyDict(<<>>)]))]}

Datasets == UNION {[1..n -> Rows] : n \in 0..MaxRows}

----------------------------------------------------------------------------
(* Specifications *)

TaggerIdle ==
    /\ active_learning_cfg = ConfiguredActiveLearning
    /\ metrics = EmptyDict
    /\ review_required = FALSE
    /\ reviewed = FALSE

EstimatorIdle ==
    /\ probabilities = <<>>
    /\ entropy_out = NotCalled
    /\ margin_out = NotCalled
    /\ scores = EmptyDict

WorkersIdle ==
    /\ images = <<>>
    /\ pc = <<>>
    /\ category_uncertainties = EmptyDict
    /\ results = <<>>

BuilderIdle ==
    /\ args = EmptyDict
    /\ payload = EmptyDict
    /\ df = EmptyDict

BrandIdle ==
    /\ max_images = 0
    /\ image_files = <<>>
    /\ outcomes = <<>>
    /\ brand_pc = [at |-> "idle", next |-> 0]

SelectorIdle ==
    /\ entropy_threshold = DefaultEntropyThreshold
    /\ max_items = 0
    /\ result = <<>>
    /\ called = FALSE
    /\ repeated = FALSE
    /\ previous = <<>>

\* the review-queue builder: a batch read from disk, then calls of the selector
Init ==
    /\ predictions \in Batches
    /\ SelectorIdle
    /\ TaggerIdle
    /\ EstimatorIdle
    /\ BuilderIdle
    /\ WorkersIdle
    /\ BrandIdle

Next == Select

Spec == Init /\ [][Next]_vars

\* the tagger: constructed from the configuration, then calls of _needs_review
TaggerInit ==
    /\ predictions = <<>>
    /\ SelectorIdle
    /\ active_learning_cfg \in ActiveLearningConfigs
    /\ metrics = EmptyDict
    /\ review_required = FALSE
    /\ reviewed = FALSE
    /\ EstimatorIdle
    /\ BuilderIdle
    /\ WorkersIdle
    /\ BrandIdle

TaggerNext == NeedsReview

TaggerSpec == TaggerInit /\ [][TaggerNext]_vars

\* the estimator: a distribution from the classifier, then calls of its functions
EstimatorInit ==
    /\ predictions = <<>>
    /\ SelectorIdle
    /\ TaggerIdle
    /\ probabilities \in Distributions
    /\ entropy_out = NotCalled
    /\ margin_out = NotCalled
    /\ scores = EmptyDict
    /\ BuilderIdle
    /\ WorkersIdle
    /\ BrandIdle

EstimatorNext ==
    \/ ProbabilityEntropy
    \/ MarginConfidence
    \/ ComputeUncertainty

EstimatorSpec == EstimatorInit /\ [][EstimatorNext]_vars

Folders == UNION {[1..n -> Images] : n \in 0..MaxImages}

\* the builder script run on a dataset: either one found on disk, or the one
\* the tagger writes for a brand folder
BuilderInit ==
    /\ predictions = <<>>
    /\ SelectorIdle
    /\ active_learning_cfg \in ActiveLearningConfigs
    /\ metrics = EmptyDict
    /\ review_required = FALSE
    /\ reviewed = FALSE
    /\ EstimatorIdle
    /\ args = EmptyDict
    /\ payload = EmptyDict
    /\ pc = <<>>
    /\ category_uncertainties = EmptyDict
    /\ results = <<>>
    /\ image_files = <<>>
    /\ outcomes = <<>>
    /\ \/ /\ df \in [columns : {TRUE}, rows : Datasets]
          /\ images = <<>>
          /\ max_images = 0
          /\ brand_pc = [at |-> "idle", next |-> 0]
       \/ /\ df = EmptyDict
          /\ images \in Folders
          /\ max_images = 0
          /\ brand_pc = [at |-> "start", next |-> 0]

BuilderNext ==
    \/ ProcessBrandImages
    \/ ProcessNextImage
    \/ ReturnResults
    \/ SaveDataset
    \/ Main

BuilderSpec == BuilderInit /\ [][BuilderNext]_vars

\* one tagger shared by workers that each process one readable image, a worker
\* being free to run whenever another is between two steps
ParallelInit ==
    /\ predictions = <<>>
    /\ SelectorIdle
    /\ TaggerIdle
    /\ EstimatorIdle
    /\ BuilderIdle
    /\ images \in [Workers -> {i \in Images : i.openable}]
    /\ pc = [w \in Workers |-> [at |-> "start", next |-> 0]]
    /\ category_uncertainties = EmptyDict
    /\ results = [w \in Workers |-> EmptyDict]
    /\ BrandIdle

ParallelNext ==
    \E w \in Workers :
        \/ ClassifyOpen(w)
        \/ ClassifyCategory(w)
        \/ Finish(w)

ParallelSpec == ParallelInit /\ [][ParallelNext]_vars

\* batch tagging: one tagger, one brand folder, one call of process_brand_images
BrandInit ==
    /\ predictions = <<>>
    /\ SelectorIdle
    /\ active_learning_cfg \in ActiveLearningConfigs
    /\ metrics = EmptyDict
    /\ review_required = FALSE
    /\ reviewed = FALSE
    /\ EstimatorIdle
    /\ BuilderIdle
    /\ images \in Folders
    /\ pc = <<>>
    /\ category_uncertainties = EmptyDict
    /\ results = <<>>
    /\ max_images \in (0 - MaxNegativeItems)..MaxImages
    /\ image_files = <<>>
    /\ outcomes = <<>>
    /\ brand_pc = [at |-> "start", next |-> 0]

BrandNext ==
    \/ ProcessBrandImages
    \/ ProcessNextImage
    \/ ReturnResults

BrandSpec == BrandInit /\ [][BrandNext]_vars

----------------------------------------------------------------------------
(* Review Selector: admission, ranking, truncation *)

\* positions of the batch whose sample passes the entropy gate of the latest call
AdmittedPositions ==
    {i \in 1..Len(predictions) : SampleEntropy(predictions[i]) >= entropy_threshold}

\* entropy of the sample returned at place j of the result
ResultEntropy(j) == SampleEntropy(predictions[result[j]])

\* C1: no returned sample has entropy below the threshold, whatever the cap;
\* when the cap does not truncate, the returned samples are exactly those whose
\* gating entropy is >= the threshold (entropy = threshold is admitted).
C1_ThresholdAdmission ==
    called =>
        /\ \A j \in 1..Len(result) : ResultEntropy(j) >= entropy_threshold
        /\ max_items >= Cardinality(AdmittedPositions) =>
                Range(result) = AdmittedPositions

\* a sample exactly on the threshold is returned and one below it is left out
C1_Witness ==
    /\ called
    /\ max_items >= Len(predictions)
    /\ \E i \in Range(result) : SampleEntropy(predictions[i]) = entropy_threshold
    /\ \E i \in 1..Len(predictions) :
        /\ "uncertainty" \in DOMAIN predictions[i]
        /\ SampleEntropy(predictions[i]) < entropy_threshold
        /\ i \notin Range(result)

\* C2: the result is ordered by entropy, highest first.
C2_RankedDescending ==
    called =>
        \A i \in 1..Len(result) : \A j \in 1..Len(result) :
            i < j => ResultEntropy(i) >= ResultEntropy(j)

\* two returned samples of different entropy that the input held in the other order
C2_Witness ==
    /\ called
    /\ Len(result) >= 2
    /\ ResultEntropy(1) > ResultEntropy(2)
    /\ result[1] > result[2]

\* C3: the result never has more entries than the cap allows, for every integer
\* cap: at most max_items, so none when max_items is zero or negative.
C3_CapRespected ==
    called => Len(result) <= Max(max_items, 0)

\* C4: for a cap k >= 0 the result has exactly min(k, admitted) entries and
\* every admitted sample left out has entropy <= that of every returned one.
C4_MostUncertainKept ==
    (called /\ max_items >= 0) =>
        /\ Len(result) = Min(max_items, Cardinality(AdmittedPositions))
        /\ \A i \in AdmittedPositions \ Range(result) :
            \A j \in 1..Len(result) :
                SampleEntropy(predictions[i]) <= ResultEntropy(j)

\* the cap truncates, and an admitted sample earlier in the input than every
\* returned one is left out for a sample of higher entropy
C4_Witness ==
    /\ called
    /\ max_items >= 1
    /\ Len(result) = max_items
    /\ \E i \in AdmittedPositions \ Range(result) :
        \A j \in 1..Len(result) :
            /\ i < result[j]
            /\ SampleEntropy(predictions[i]) < ResultEntropy(j)

\* C5: returned samples of equal entropy keep their input order, and when the
\* cap cuts through a group of equal entropy the earliest of the group are kept.
C5_StableRanking ==
    called =>
        /\ \A i \in 1..Len(result) : \A j \in 1..Len(result) :
            (i < j /\ ResultEntropy(i) = ResultEntropy(j)) => result[i] < result[j]
        /\ \A a \in AdmittedPositions : \A b \in Range(result) :
            (a < b /\ SampleEntropy(predictions[a]) = SampleEntropy(predictions[b]))
                => a \in Range(result)

\* three admitted samples of equal entropy and a cap that keeps two of them
C5_Witness ==
    /\ called
    /\ max_items = 2
    /\ Len(predictions) = 3
    /\ AdmittedPositions = {1, 2, 3}
    /\ SampleEntropy(predictions[1]) = SampleEntropy(predictions[2])
    /\ SampleEntropy(predictions[2]) = SampleEntropy(predictions[3])
    /\ result = <<1, 2>>

\* C6: a sample without an uncertainty sub-record is never returned, for every
\* threshold and every cap.
C6_MissingUncertaintyExcluded ==
    called =>
        \A i \in 1..Len(predictions) :
            "uncertainty" \notin DOMAIN predictions[i] => i \notin Range(result)

----------------------------------------------------------------------------
(* Tagging-time flag and the two admission policies *)

\* C7: _needs_review returns true iff entropy >= entropy_threshold or
\* margin <= margin_threshold, the thresholds defaulting to 1.1 and 0.25, a
\* missing entropy counting as 0.0 and a missing margin as 1.0.
C7_NeedsAnnotationFlag ==
    reviewed =>
        LET threshold == IF "entropy_threshold" \in DOMAIN active_learning_cfg
                         THEN active_learning_cfg.entropy_threshold ELSE 110
            margin_threshold == IF "margin_threshold" \in DOMAIN active_learning_cfg
                                THEN active_learning_cfg.margin_threshold ELSE 25
            entropy == IF "entropy" \in DOMAIN metrics THEN metrics.entropy ELSE 0
            margin == IF "margin" \in DOMAIN metrics THEN metrics.margin ELSE 100
        IN review_required <=> (entropy >= threshold \/ margin <= margin_threshold)

\* no thresholds configured, no entropy measured, margin exactly 0.25: flagged
C7_Witness ==
    /\ reviewed
    /\ active_learning_cfg = EmptyDict
    /\ DOMAIN metrics = {"margin"}
    /\ metrics.margin = 25
    /\ review_required

MarginConfVariants == {<<25, 50>>, <<100, 100>>}

\* the batch with the margin and max_confidence values of sample i replaced by f[i]
WithMarginConf(batch, f) ==
    [i \in 1..Len(batch) |->
        IF "uncertainty" \in DOMAIN batch[i]
        THEN [batch[i] EXCEPT !.uncertainty =
                [@ EXCEPT !.margin = f[i][1], !.max_confidence = f[i][2]]]
        ELSE batch[i]]

\* C8: a batch that differs from the given one only in margin and
\* max_confidence values yields the same positions in the same order.
C8_MarginIndependent ==
    called =>
        \A f \in [1..Len(predictions) -> MarginConfVariants] :
            select_for_review(WithMarginConf(predictions, f),
                              entropy_threshold, max_items) = result

\* a returned and a left-out sample that both carry margin and max_confidence
C8_Witness ==
    /\ called
    /\ max_items >= Len(predictions)
    /\ \E i \in Range(result) : "uncertainty" \in DOMAIN predictions[i]
    /\ \E i \in 1..Len(predictions) :
        /\ i \notin Range(result)
        /\ "uncertainty" \in DOMAIN predictions[i]
        /\ predictions[i].uncertainty.margin <= DefaultMarginThreshold

\* margin of a sample as the tagger reads it
SampleMargin(sample) ==
    Get(Get(sample, "uncertainty", EmptyDict), "margin", DefaultMargin)

ConfiguredMarginThreshold ==
    Get(active_learning_cfg, "margin_threshold", DefaultMarginThreshold)

\* C9 as stated: without truncation a sample is returned iff its entropy is
\* >= entropy_threshold or its margin is <= margin_threshold.
C9_OrCombinedAdmission ==
    (called /\ max_items >= Len(predictions)) =>
        \A i \in 1..Len(predictions) :
            i \in Range(result) <=>
                \/ SampleEntropy(predictions[i]) >= entropy_threshold
                \/ SampleMargin(predictions[i]) <= ConfiguredMarginThreshold

\* C9 amended: the selector gates on entropy alone; a sample with entropy below
\* the threshold is never returned, also when its margin is <= margin_threshold,
\* the case in which the tagging-time flag marks it needs_annotation.
C9_EntropyGateOnly ==
    called =>
        \A i \in 1..Len(predictions) :
            (/\ SampleEntropy(predictions[i]) < entropy_threshold
             /\ SampleMargin(predictions[i]) <= ConfiguredMarginThreshold)
            => /\ i \notin Range(result)
               /\ needs_review(active_learning_cfg, predictions[i].uncertainty)

\* a low-margin sample below the entropy threshold is left out of a queue that
\* the cap does not truncate and that holds another sample
C9_Witness ==
    /\ called
    /\ max_items >= Len(predictions)
    /\ result # <<>>
    /\ \E i \in 1..Len(predictions) :
        /\ SampleEntropy(predictions[i]) < entropy_threshold
        /\ SampleMargin(predictions[i]) <= ConfiguredMarginThreshold
        /\ i \notin Range(result)

\* C10: a call with the batch, threshold and cap of the call before it returns
\* the queue that call returned.
C10_RepeatedCallSameQueue ==
    repeated => result = previous

\* a repeated call returning two samples of equal entropy
C10_Witness ==
    /\ repeated
    /\ Len(result) >= 2
    /\ ResultEntropy(1) = ResultEntropy(2)
    /\ previous = result

----------------------------------------------------------------------------
(* Uncertainty Estimator *)

\* the largest entry of a non-empty input
Largest(values) == CHOOSE v \in Range(values) : \A w \in Range(values) : w <= v

RECURSIVE Total(_)
Total(values) ==
    IF values = <<>> THEN 0 ELSE Head(values) + Total(Tail(values))

\* a proper distribution: at least one entry, each in [0, 1], summing to 1
WellFormed(values) ==
    /\ values # <<>>
    /\ \A i \in 1..Len(values) : values[i] >= 0 /\ values[i] <= ClipCeiling
    /\ Total(values) = ClipCeiling

\* C13: an empty input makes probability_entropy and margin_confidence raise,
\* while the max_confidence of an empty input is 0.
C13_EmptyInputFailsLoudly ==
    probabilities = <<>> =>
        /\ entropy_out.kind # "none" => entropy_out.kind = "raised"
        /\ margin_out.kind # "none" => margin_out.kind = "raised"
        /\ scores # EmptyDict => scores.max_confidence = Finite(0)

\* C14: with two or more candidates the margin is the largest entry minus the
\* second largest, duplicates counted; for a proper distribution it is in [0, 1].
C14_MarginTopTwo ==
    margin_out.kind # "none" =>
        /\ Len(probabilities) >= 2 =>
            \E i \in 1..Len(probabilities) : \E j \in 1..Len(probabilities) \ {i} :
                /\ \A k \in 1..Len(probabilities) : probabilities[k] <= probabilities[i]
                /\ \A k \in 1..Len(probabilities) \ {i} :
                        probabilities[k] <= probabilities[j]
                /\ margin_out = Finite(probabilities[i] - probabilities[j])
        /\ WellFormed(probabilities) =>
            /\ margin_out.kind = "finite"
            /\ margin_out.value >= 0
            /\ margin_out.value <= ClipCeiling

\* the margin 0.85 of [0.05, 0.9, 0.05], whose largest entry is not the first
C14_Witness ==
    /\ probabilities = <<5000000, 90000000, 5000000>>
    /\ WellFormed(probabilities)
    /\ margin_out = Finite(85000000)

\* C15: for a single candidate the margin is that candidate's probability.
C15_SingleCandidateMargin ==
    (margin_out.kind # "none" /\ Len(probabilities) = 1 /\ probabilities[1] >= 0) =>
        margin_out = Finite(probabilities[1])

\* margin([1.0]) = 1.0
C15_Witness ==
    /\ probabilities = <<100000000>>
    /\ margin_out = Finite(100000000)

\* C16: the max_confidence field is the largest entry of a non-empty input of
\* non-negative entries, and 0 for an empty input.
C16_MaxConfidence ==
    scores # EmptyDict =>
        /\ probabilities = <<>> => scores.max_confidence = Finite(0)
        /\ (probabilities # <<>> /\ \A i \in 1..Len(probabilities) : probabilities[i] >= 0)
            => scores.max_confidence = Finite(Largest(probabilities))

\* max_confidence 0.9 of a distribution whose largest entry comes last
C16_Witness ==
    /\ scores # EmptyDict
    /\ probabilities = <<5000000, 5000000, 90000000>>
    /\ scores.max_confidence = Finite(90000000)

\* C18: for a non-empty input, entries of 0 and entries above 1 included, the
\* entropy is a finite number >= 0, never -inf or NaN.
C18_EntropyFiniteNonNegative ==
    (entropy_out.kind # "none" /\ probabilities # <<>>) =>
        /\ entropy_out.kind = "finite"
        /\ entropy_out.value >= 0

\* an input holding an entry of exactly 0 and an entry above 1
C18_Witness ==
    /\ entropy_out.kind = "finite"
    /\ 0 \in Range(probabilities)
    /\ \E i \in 1..Len(probabilities) : probabilities[i] > ClipCeiling
    /\ \E i \in 1..Len(probabilities) : probabilities[i] = 50000000
    /\ entropy_out.value > 0

\* C19: the fields of compute_uncertainty are probability_entropy and
\* margin_confidence of the given input and the largest entry of that input.
C19_ComposesUnchanged ==
    (scores # EmptyDict /\ entropy_out.kind # "none" /\ margin_out.kind # "none") =>
        /\ scores.entropy = entropy_out
        /\ scores.margin = margin_out
        /\ (probabilities # <<>> /\ Largest(probabilities) >= 0) =>
                scores.max_confidence = Finite(Largest(probabilities))

\* the three functions called on an input with an entry above 1 and one below 0
C19_Witness ==
    /\ scores # EmptyDict
    /\ entropy_out.kind # "none"
    /\ margin_out.kind # "none"
    /\ Len(probabilities) >= 2
    /\ \E i \in 1..Len(probabilities) : probabilities[i] > ClipCeiling
    /\ \E i \in 1..Len(probabilities) : probabilities[i] < 0
    /\ scores.margin = margin_out

----------------------------------------------------------------------------
(* Purity of the selector, and the payload of the builder *)

\* C11: a call leaves the input batch as it was, and what it returns is
\* determined by the batch, the threshold and the cap of that call alone,
\* whatever calls came before.
C11_PureCall ==
    [][/\ predictions' = predictions
       /\ result' = select_for_review(predictions', entropy_threshold', max_items')
      ]_vars

\* a second call has returned samples in another order than the batch holds them
C11_Witness ==
    /\ repeated
    /\ Len(result) >= 2
    /\ result[1] > result[2]
    /\ ResultEntropy(1) > ResultEntropy(2)

\* C20: the samples of the payload are the summaries of the selected samples,
\* in order; metadata.count is their number; metadata.entropy_threshold is the
\* threshold given to select_for_review: the override when one was given (0
\* included), the configured value otherwise.
C20_PayloadMatchesSelection ==
    "metadata" \in DOMAIN payload =>
        /\ result = select_for_review(predictions, entropy_threshold, max_items)
        /\ Len(payload.samples) = Len(result)
        /\ \A j \in 1..Len(result) :
            /\ payload.samples[j].image_id = predictions[result[j]].image_id
            /\ payload.samples[j].uncertainty =
                    IF "uncertainty" \in DOMAIN predictions[result[j]]
                    THEN predictions[result[j]].uncertainty
                    ELSE EmptyDict
        /\ payload.metadata.count = Len(payload.samples)
        /\ payload.metadata.entropy_threshold = entropy_threshold
        /\ entropy_threshold =
                IF args.entropy_threshold # <<>> THEN args.entropy_threshold[1]
                ELSE IF "entropy_threshold" \in DOMAIN active_learning_cfg
                     THEN active_learning_cfg.entropy_threshold
                     ELSE 110

\* an override of 0 against a configured 1.1, and a queue of two entries that
\* the configured threshold would not have admitted
C20_Witness ==
    /\ "metadata" \in DOMAIN payload
    /\ args.entropy_threshold = <<0>>
    /\ active_learning_cfg = ConfiguredActiveLearning
    /\ payload.metadata.entropy_threshold = 0
    /\ payload.metadata.count = 2
    /\ \A j \in 1..Len(result) : "uncertainty" \in DOMAIN predictions[result[j]]
    /\ result[1] > result[2]
    /\ ResultEntropy(1) > ResultEntropy(2)
    /\ ResultEntropy(1) < DefaultEntropyThreshold

----------------------------------------------------------------------------
(* Workers sharing one tagger *)

\* C12: under every interleaving, the uncertainty record and the review flag a
\* worker gets for its image are those of that image's own classifier output.
C12_OwnUncertaintyOnly ==
    \A w \in Workers :
        pc[w].at = "done" =>
            /\ results[w].uncertainty =
                    [c \in Range(Categories) |-> images[w].uncertainty]
            /\ results[w].needs_annotation =
                    needs_review(active_learning_cfg, images[w].uncertainty)

----------------------------------------------------------------------------
(* The queue as a selection from the batch *)

\* C26: every returned element is a sample of the input batch, each input
\* position is returned at most once, and the result is never longer than the
\* input.
C26_SubSelection ==
    called =>
        /\ \A j \in 1..Len(result) : result[j] \in 1..Len(predictions)
        /\ \A j \in 1..Len(result) : \A k \in 1..Len(result) :
                result[j] = result[k] => j = k
        /\ Len(result) <= Len(predictions)

\* two samples returned out of three, in an order that is not the input's
C26_Witness ==
    /\ called
    /\ Len(predictions) = 3
    /\ Len(result) = 2
    /\ result[1] > result[2]

IsPrefix(a, b) == Len(a) <= Len(b) /\ a = SubSeq(b, 1, Len(a))

\* how many samples of the batch the gate admits at a threshold
AdmittedCount(batch, threshold) ==
    Cardinality({i \in 1..Len(batch) : Admits(batch[i], threshold)})

\* C28: for caps >= 0 the queue of a smaller cap is a prefix of the queue of a
\* larger cap; and with a cap that does not truncate, the queue at a threshold
\* is the prefix of the queue at any lower threshold that holds the samples
\* whose entropy reaches the higher threshold.
C28_MonotoneInCapAndThreshold ==
    (called /\ max_items >= 0) =>
        /\ \A k \in 0..(MaxItems + 1) :
            LET other == select_for_review(predictions, entropy_threshold, k)
            IN IF k <= max_items THEN IsPrefix(other, result)
               ELSE IsPrefix(result, other)
        /\ \A lower \in ThresholdValues :
            (lower <= entropy_threshold
                /\ max_items >= AdmittedCount(predictions, lower)) =>
                LET wide == select_for_review(predictions, lower, max_items)
                IN /\ IsPrefix(result, wide)
                   /\ \A j \in 1..Len(wide) :
                        j <= Len(result)
                            <=> SampleEntropy(predictions[wide[j]]) >= entropy_threshold

\* a queue of two that a cap of 1 cuts short and a lower threshold extends
C28_Witness ==
    /\ called
    /\ max_items = 3
    /\ Len(predictions) = 3
    /\ entropy_threshold = DefaultEntropyThreshold
    /\ Len(result) = 2
    /\ ResultEntropy(1) > ResultEntropy(2)
    /\ Len(select_for_review(predictions, entropy_threshold, 1)) = 1
    /\ Len(select_for_review(predictions, 0, max_items)) = 3

----------------------------------------------------------------------------
(* max_confidence against margin *)

\* C29: for an input of non-negative entries max_confidence >= margin, with
\* equality exactly when the input has a single candidate or its second
\* largest entry is 0.
C29_MaxConfidenceBoundsMargin ==
    (scores # EmptyDict /\ \A i \in 1..Len(probabilities) : probabilities[i] >= 0) =>
        /\ scores.max_confidence.kind = "finite"
        /\ scores.margin.kind = "finite"
        /\ scores.max_confidence.value >= scores.margin.value
        /\ scores.max_confidence.value = scores.margin.value
            <=> \/ Len(probabilities) = 1
                \/ /\ Len(probabilities) >= 2
                   /\ SortedDescending(probabilities)[2] = 0

----------------------------------------------------------------------------
(* Batch tagging *)

\* positions, in outcomes, of the files whose processing did not raise
RECURSIVE Succeeded(_)
Succeeded(n) ==
    IF n = 0 THEN <<>>
    ELSE IF outcomes[n] = "ok" THEN Append(Succeeded(n - 1), n) ELSE Succeeded(n - 1)

\* C22: an image whose processing raises is skipped and the loop goes on: the
\* results are those of exactly the other images, in processing order, and the
\* call returns only after every file was handled.
C22_BadSampleSkipped ==
    brand_pc.at \notin {"idle", "start"} =>
        /\ Len(outcomes) = brand_pc.next - 1
        /\ brand_pc.at = "returned" => Len(outcomes) = Len(image_files)
        /\ LET good == Succeeded(Len(outcomes))
           IN /\ Len(results) = Len(good)
              /\ \A j \in 1..Len(results) :
                    results[j].image_path = image_files[good[j]]

\* the first image raised, the second was processed, and the call returned
C22_Witness ==
    /\ brand_pc.at = "returned"
    /\ outcomes = <<"raised", "ok">>
    /\ Len(results) = 1
    /\ results[1].image_path = 2

\* C23: for every max_images >= 0, 0 included, at most max_images images are
\* processed and at most max_images results are returned.
C23_LimitBoundsWork ==
    (brand_pc.at \in {"loop", "returned"} /\ max_images >= 0) =>
        /\ Len(image_files) <= max_images
        /\ Len(outcomes) <= max_images
        /\ Len(results) <= max_images

\* what an image's own classifier output gives: nothing for an unreadable file
OwnUncertainty(image) ==
    IF image.openable THEN [c \in Range(Categories) |-> image.uncertainty]
    ELSE EmptyDict

\* C24: in a sequence of images processed by one tagger, each result's
\* uncertainty record and needs_annotation flag come from that image's own
\* classifier output; an unreadable image gets no uncertainty values and does
\* not inherit those of the image before it.
C24_NoInheritedUncertainty ==
    \A j \in 1..Len(results) :
        LET image == images[results[j].image_path]
        IN /\ results[j].uncertainty = OwnUncertainty(image)
           /\ results[j].needs_annotation =
                needs_review(active_learning_cfg,
                             Get(OwnUncertainty(image), "angles", EmptyDict))

----------------------------------------------------------------------------
(* The dataset read by the queue builder *)

\* the angles record a row holds, as build_samples reads it
RecordedAngle(row) ==
    LET uncertainty_all == coerce_mapping(row.uncertainty)
    IN IF uncertainty_all.kind = "dict"
       THEN Get(uncertainty_all.value, "angles", EmptyDict)
       ELSE EmptyDict

\* C25: build_samples carries the recorded entropy, margin and max_confidence
\* of the angles category into the sample unchanged, a margin of 0 included,
\* and uses the defaults 0.0, 1.0 and 0.0 only for values that are absent.
C25_RecordedValuesCarried ==
    called =>
        \A i \in 1..Len(predictions) :
            LET recorded == RecordedAngle(df.rows[i])
                uncertainty == predictions[i].uncertainty
            IN /\ uncertainty.entropy = Get(recorded, "entropy", DefaultEntropy)
               /\ uncertainty.margin = Get(recorded, "margin", DefaultMargin)
               /\ uncertainty.max_confidence = Get(recorded, "max_confidence", 0)

\* C30: the clip_results of every sample built by build_samples is a mapping,
\* the one the cell encodes or an empty one, so that summarise_sample does
\* not fail on it.
C30_CoercedToMapping ==
    called =>
        /\ \A i \in 1..Len(predictions) : predictions[i].clip_results.kind = "dict"
        /\ "error" \in DOMAIN payload => payload.error # "AttributeError"

\* the summary fields and the categories they are taken from
BestFields ==
    {<<"best_angle", "angles", "angle_confidence">>,
     <<"best_brand", "brands", "brand_confidence">>,
     <<"best_style", "styles", "style_confidence">>,
     <<"best_interior", "interior_parts", "interior_confidence">>}

\* C21: each best_* entry of a summary is empty when its category is missing
\* from the sample's clip_results, empty or not a mapping; otherwise it names
\* a prompt of the category with the largest score of the category, and that
\* score is the confidence the tagger reported for the category.
C21_BestLabelIsTopScore ==
    "metadata" \in DOMAIN payload =>
        \A j \in 1..Len(payload.samples) : \A field \in BestFields :
            LET sample == predictions[result[j]]
                entry == payload.samples[j][field[1]]
                category_payload ==
                    Get(sample.clip_results.value, field[2], PyDict(<<>>))
            IN IF category_payload.kind # "dict" \/ category_payload.value = <<>>
               THEN entry = EmptyDict
               ELSE /\ \E k \in 1..Len(category_payload.value) :
                        /\ category_payload.value[k].label = entry.label
                        /\ category_payload.value[k].score = entry.score
                    /\ \A k \in 1..Len(category_payload.value) :
                        category_payload.value[k].score <= entry.score
                    /\ results # <<>> =>
                        entry.score = results[result[j]][field[3]]

\* a queue holding the split image written by the tagger: its best angle is
\* the first prompt, its best brand the fourth, both at 0.6
C21_Witness ==
    /\ "metadata" \in DOMAIN payload
    /\ results # <<>>
    /\ \E j \in 1..Len(payload.samples) :
        /\ payload.samples[j].best_angle =
                [label |-> "front view of a car", score |-> 60]
        /\ payload.samples[j].best_brand = [label |-> "MINI car", score |-> 60]
        /\ results[result[j]].angle_confidence = 60

\* C27: when the builder runs on the tagger's dataset with the tagger's
\* entropy threshold, every sample in the queue was flagged needs_annotation
\* by the tagger, whatever the margin threshold.
C27_QueuedSamplesWereFlagged ==
    (called /\ results # <<>>
        /\ entropy_threshold =
            Get(active_learning_cfg, "entropy_threshold", DefaultEntropyThreshold)) =>
        \A j \in 1..Len(result) : results[result[j]].needs_annotation

\* a queued image whose margin 0.2 is above the margin threshold 0.1 and
\* whose entropy 1.33 reaches the threshold 1.1
C27_Witness ==
    /\ called
    /\ results # <<>>
    /\ active_learning_cfg = [margin_threshold |-> 10]
    /\ entropy_threshold = DefaultEntropyThreshold
    /\ \E j \in 1..Len(result) :
        /\ predictions[result[j]].uncertainty.margin = 20
        /\ predictions[result[j]].uncertainty.entropy = 133
        /\ results[result[j]].needs_annotation

====
